---- MODULE Spec2Model ----
(***************************************************************************)
(* Model of the Netflix catalogue pipeline: the cleaning script            *)
(* ("Data cleaning.py") and the part of the Streamlit dashboard            *)
(* (netflix_dashboard.py) that loads, filters and exports the cleaned      *)
(* file.                                                                   *)
(*                                                                         *)
(* A text is a sequence of one-character strings.  A file is a header      *)
(* (sequence of column names) and rows of cell texts; the empty text is an *)
(* empty CSV cell.  A DataFrame cell is a record [k, s, n]: k is "nan"     *)
(* (missing), "str" (text s), "num" (number n) or "date" (n = yyyymmdd).   *)
(* A DataFrame row carries its index label idx, which pandas keeps across  *)
(* drop_duplicates / dropna / boolean indexing.                            *)
(*                                                                         *)
(* pandas semantics are those of pandas 1.x / 2.x: astype(str) turns NaN   *)
(* into the text "nan".  read_csv's per-column type inference is not       *)
(* modelled: cells are read as text and coerced by to_numeric/to_datetime. *)
(***************************************************************************)
EXTENDS Integers, Sequences, FiniteSets, TLC

VARIABLES pc, run, infile, df, outfile, firstOut, ddf, sel, filtered, export

vars == <<pc, run, infile, df, outfile, firstOut, ddf, sel, filtered, export>>

(* ------------------------------ bounds -------------------------------- *)
MaxRows == 3

MaxDashRows == 2

MaxSelected == 1

(* ------------------------------- text --------------------------------- *)
Range(f) == {f[i] : i \in DOMAIN f}

LowerLetters == <<"a","b","c","d","e","f","g","h","i","j","k","l","m",
                  "n","o","p","q","r","s","t","u","v","w","x","y","z">>

UpperLetters == <<"A","B","C","D","E","F","G","H","I","J","K","L","M",
                  "N","O","P","Q","R","S","T","U","V","W","X","Y","Z">>

Digits == <<"0","1","2","3","4","5","6","7","8","9">>

LetterIndex(ls, c) == CHOOSE i \in DOMAIN ls : ls[i] = c

IsLower(c) == c \in Range(LowerLetters)

IsUpper(c) == c \in Range(UpperLetters)

IsCased(c) == IsLower(c) \/ IsUpper(c)

ToUpper(c) == IF IsLower(c) THEN UpperLetters[LetterIndex(LowerLetters, c)] ELSE c

ToLower(c) == IF IsUpper(c) THEN LowerLetters[LetterIndex(UpperLetters, c)] ELSE c

IsSpace(c) == c \in {" ", "\t", "\n", "\r"}

IsDigit(c) == c \in Range(Digits)

DigitVal(c) == LetterIndex(Digits, c) - 1

\* the regular expression ^\s*$ : empty or whitespace only
IsBlank(t) == \A i \in DOMAIN t : IsSpace(t[i])

\* str.strip()
Strip(t) ==
  IF IsBlank(t) THEN <<>>
  ELSE LET first == CHOOSE i \in DOMAIN t :
                      ~IsSpace(t[i]) /\ \A j \in 1..(i-1) : IsSpace(t[j])
           last  == CHOOSE i \in DOMAIN t :
                      ~IsSpace(t[i]) /\ \A j \in (i+1)..Len(t) : IsSpace(t[j])
       IN  SubSeq(t, first, last)

\* str.title(): a cased character is upper-cased when the previous character
\* is not cased, lower-cased otherwise
Title(t) ==
  [i \in DOMAIN t |->
     IF i > 1 /\ IsCased(t[i-1]) THEN ToLower(t[i]) ELSE ToUpper(t[i])]

\* str.lower()
Lower(t) == [i \in DOMAIN t |-> ToLower(t[i])]

\* Python's  a in b  on strings
IsSubstring(a, b) ==
  \E i \in 0..(Len(b) - Len(a)) : SubSeq(b, i + 1, i + Len(a)) = a

AllDigits(t) == t # <<>> /\ \A i \in DOMAIN t : IsDigit(t[i])

RECURSIVE DigitsValue(_)
DigitsValue(t) ==
  IF t = <<>> THEN 0
  ELSE 10 * DigitsValue(SubSeq(t, 1, Len(t) - 1)) + DigitVal(t[Len(t)])

RECURSIVE NatText(_)
NatText(n) ==
  IF n < 10 THEN <<Digits[n + 1]>>
  ELSE NatText(n \div 10) \o <<Digits[(n % 10) + 1]>>

Pad2(n) == IF n < 10 THEN <<"0">> \o NatText(n) ELSE NatText(n)

RECURSIVE Pad4(_)
Pad4(t) == IF Len(t) >= 4 THEN t ELSE Pad4(<<"0">> \o t)

(* ------------------------------- cells -------------------------------- *)
NaN == [k |-> "nan", s |-> <<>>, n |-> 0]

Str(t) == [k |-> "str", s |-> t, n |-> 0]

IntCell(v) == [k |-> "int", s |-> <<>>, n |-> v]

FloatCell(v) == [k |-> "float", s |-> <<>>, n |-> v]

DateCell(y, m, d) == [k |-> "date", s |-> <<>>, n |-> y * 10000 + m * 100 + d]

IsNa(cell) == cell.k = "nan"

IsNum(cell) == cell.k \in {"int", "float"}

\* read_csv's default na_values (those that fit the model's alphabet)
NaValues == { <<>>, <<"N","A">>, <<"N","/","A">>, <<"n","/","a">>,
              <<"N","a","N">>, <<"n","a","n">>, <<"n","u","l","l">>,
              <<"N","U","L","L">>, <<"N","o","n","e">> }

ParseCell(t) == IF t \in NaValues THEN NaN ELSE Str(t)

\* pd.read_csv: header row, one DataFrame row per line, RangeIndex 0..n-1
ReadCsv(file) ==
  [cols |-> file.cols,
   rows |-> [i \in DOMAIN file.rows |->
               [idx |-> i - 1,
                c   |-> [col \in Range(file.cols) |-> ParseCell(file.rows[i][col])]]]]

RECURSIVE SelectAt(_, _)
\* the subsequence of s at the positions in keep (boolean indexing)
SelectAt(s, keep) ==
  IF s = <<>> THEN <<>>
  ELSE LET r == SelectAt(SubSeq(s, 1, Len(s) - 1), keep)
       IN  IF Len(s) \in keep THEN Append(r, s[Len(s)]) ELSE r

\* df.drop_duplicates(): keep the first of rows equal in every column
DropDuplicates(d) ==
  [d EXCEPT !.rows =
     SelectAt(@, {i \in DOMAIN d.rows : \A j \in 1..(i-1) : d.rows[j].c # d.rows[i].c})]

Essential == {"title", "type", "release_year"}

\* mutant: dropna() without the subset drops a row with any missing cell
DropNaAnyColumn(d) ==
  [d EXCEPT !.rows =
     SelectAt(@, {i \in DOMAIN d.rows :
                    \A col \in Range(d.cols) : ~IsNa(d.rows[i].c[col])})]

\* df.dropna(subset=[...])
DropNa(d) ==
  [d EXCEPT !.rows =
     SelectAt(@, {i \in DOMAIN d.rows : \A col \in Essential : ~IsNa(d.rows[i].c[col])})]

cat_cols == <<"type", "rating", "country", "director", "cast", "listed_in">>

\* Series.astype(str): a missing value becomes the text "nan"
AsTypeStr(cell) == IF IsNa(cell) THEN Str(<<"n","a","n">>) ELSE cell

\* .replace(r'^\s*$', np.nan, regex=True)
ReplaceBlank(cell) == IF cell.k = "str" /\ IsBlank(cell.s) THEN NaN ELSE cell

\* lambda x: x.strip().title() if isinstance(x, str) else x
StripTitle(cell) == IF cell.k = "str" THEN Str(Title(Strip(cell.s))) ELSE cell

CleanCell(cell) == StripTitle(ReplaceBlank(AsTypeStr(cell)))

\* a decimal numeral: digits, optionally followed by "." and zeros
IsIntText(t) == AllDigits(t)

IsFloatText(t) ==
  \E p \in DOMAIN t :
     /\ t[p] = "."
     /\ AllDigits(SubSeq(t, 1, p - 1))
     /\ \A j \in (p+1)..Len(t) : t[j] = "0"

IntPart(t) ==
  IF IsIntText(t) THEN DigitsValue(t)
  ELSE DigitsValue(SubSeq(t, 1, (CHOOSE p \in DOMAIN t : t[p] = ".") - 1))

\* pd.to_numeric(errors='coerce') on one value
ToNumericCell(cell) ==
  IF cell.k # "str" THEN cell
  ELSE IF IsIntText(cell.s) THEN IntCell(IntPart(cell.s))
  ELSE IF IsFloatText(cell.s) THEN FloatCell(IntPart(cell.s))
  ELSE NaN

IsLeap(y) == (y % 4 = 0 /\ y % 100 # 0) \/ y % 400 = 0

DaysInMonth(y, m) ==
  IF m = 2 THEN (IF IsLeap(y) THEN 29 ELSE 28)
  ELSE IF m \in {4, 6, 9, 11} THEN 30 ELSE 31

IsDateText(t) ==
  /\ Len(t) = 10
  /\ t[5] = "-" /\ t[8] = "-"
  /\ \A i \in {1, 2, 3, 4, 6, 7, 9, 10} : IsDigit(t[i])
  /\ LET y == DigitsValue(SubSeq(t, 1, 4))
         m == DigitsValue(SubSeq(t, 6, 7))
         dd == DigitsValue(SubSeq(t, 9, 10))
     IN  y >= 1 /\ m \in 1..12 /\ dd \in 1..DaysInMonth(y, m)

\* pd.to_datetime(errors='coerce') on one ISO yyyy-mm-dd value
ToDatetimeCell(cell) ==
  IF cell.k # "str" THEN cell
  ELSE IF IsDateText(cell.s)
       THEN DateCell(DigitsValue(SubSeq(cell.s, 1, 4)),
                     DigitsValue(SubSeq(cell.s, 6, 7)),
                     DigitsValue(SubSeq(cell.s, 9, 10)))
       ELSE NaN

\* the element-wise conversions the script and the dashboard apply to columns
ApplyTo(op, cell) ==
  CASE op = "clean"         -> CleanCell(cell)
    [] op = "to_numeric"    -> ToNumericCell(cell)
    [] op = "to_datetime"   -> ToDatetimeCell(cell)
    [] op = "replace_blank" -> ReplaceBlank(cell)

\* df[col] = conversion of df[col], for the columns in colset
MapColumns(d, colset, op) ==
  [cols |-> d.cols,
   rows |-> [i \in DOMAIN d.rows |->
               [idx |-> d.rows[i].idx,
                c   |-> [col \in Range(d.cols) |->
                           IF col \in colset THEN ApplyTo(op, d.rows[i].c[col])
                                            ELSE d.rows[i].c[col]]]]]

\* the loop over cat_cols, skipping the columns the frame does not have
CleanCategorical(d) == MapColumns(d, Range(cat_cols) \cap Range(d.cols), "clean")

ToNumeric(d, col) == MapColumns(d, {col}, "to_numeric")

ToDatetime(d, col) == MapColumns(d, {col}, "to_datetime")

\* mutant: .dt.month in place of .dt.year
DtMonth(cell) == IF cell.k = "date" THEN IntCell((cell.n \div 100) % 100) ELSE NaN

\* Series.dt.year
DtYear(cell) == IF cell.k = "date" THEN IntCell(cell.n \div 10000) ELSE NaN

\* df['year_added'] = df['date_added'].dt.year: replaces the column, or
\* appends it as the last one
YearAdded(d) ==
  LET newcols == IF "year_added" \in Range(d.cols) THEN d.cols
                 ELSE Append(d.cols, "year_added")
  IN  [cols |-> newcols,
       rows |-> [i \in DOMAIN d.rows |->
                   [d.rows[i] EXCEPT !.c =
                      [x \in Range(newcols) |->
                         IF x = "year_added" THEN DtYear(d.rows[i].c["date_added"])
                                             ELSE d.rows[i].c[x]]]]]

\* mutant: the categorical cleaning applied to every column
CleanEverywhere(d) == MapColumns(d, Range(d.cols), "clean")

\* df.replace(r'^\s*$', np.nan, regex=True) on the whole frame
FinalSweep(d) == MapColumns(d, Range(d.cols), "replace_blank")

\* a numeric column holding NaN or a float is a float64 column
IsFloatColumn(d, col) ==
  \E i \in DOMAIN d.rows : d.rows[i].c[col].k \in {"nan", "float"}

FormatCell(cell, asFloat) ==
  CASE cell.k = "nan"  -> <<>>
    [] cell.k = "str"  -> cell.s
    [] IsNum(cell)     -> IF asFloat THEN NatText(cell.n) \o <<".", "0">>
                                     ELSE NatText(cell.n)
    [] cell.k = "date" -> Pad4(NatText(cell.n \div 10000)) \o <<"-">>
                            \o Pad2((cell.n \div 100) % 100) \o <<"-">>
                            \o Pad2(cell.n % 100)

\* df.to_csv(index=False): header and rows, the index not written
ToCsv(d) ==
  [cols |-> d.cols,
   rows |-> [i \in DOMAIN d.rows |->
               [col \in Range(d.cols) |->
                  FormatCell(d.rows[i].c[col], IsFloatColumn(d, col))]]]

(* ------------------------------ inputs -------------------------------- *)
FullCols == <<"title", "type", "release_year", "date_added", "rating", "country",
              "director", "cast", "listed_in", "duration", "description">>

\* a file without the optional columns the code tests for
LeanCols == <<"title", "type", "release_year", "date_added", "rating", "country",
              "listed_in">>

\* a file that already has a year_added column and one column outside the
\* expected set
StaleCols == <<"title", "type", "release_year", "date_added", "rating", "country",
               "listed_in", "description", "year_added">>

BaseText(col) ==
  CASE col = "title"        -> <<"U","p">>
    [] col = "type"         -> <<"M","o","v","i","e">>
    [] col = "release_year" -> <<"2","0","2","0">>
    [] col = "date_added"   -> <<"2","0","2","1","-","0","3","-","1","5">>
    [] col = "rating"       -> <<"P","g">>
    [] col = "country"      -> <<"I","n","d","i","a">>
    [] col = "director"     -> <<"A","n","n"," ","L","e","e">>
    [] col = "cast"         -> <<"A","l"," ","R","o","e">>
    [] col = "listed_in"    -> <<"D","r","a","m","a">>
    [] col = "duration"     -> <<"9","0"," ","m","i","n">>
    [] col = "description"  -> <<"a"," ","t","a","l","e">>
    [] col = "year_added"   -> <<"1","9","9","9">>

\* cells that differ from the base row, for the cleaning script
CleanDeviations ==
  { <<"title", <<>>  >>,          <<"title", <<" ">>>>,
    <<"type", <<>>  >>,           <<"type", <<" "," ">>>>,          <<"type", <<" ","m","o","v","i","e"," ">>>>,
    <<"release_year", <<>>  >>,   <<"release_year", <<"a","b","c">>>>,
    <<"date_added", <<>>  >>,     <<"date_added", <<"2","0","2","1","-","0","2","-","3","0">>>>,
    <<"rating", <<>>  >>,         <<"listed_in", <<" "," ","c","o","m","e","d","y"," "," ">>>>,
    <<"description", <<" ">>>> }

\* cells that differ from the base row, for the dashboard
DashDeviations ==
  { <<"country", <<"N","i","g","e","r">>>>,       <<"country", <<"N","i","g","e","r","i","a">>>>,
    <<"country", <<"N","i","g","e","r",","," ","I","n","d","i","a">>>>, <<"country", <<>>  >>,
    <<"type", <<"T","V"," ","S","h","o","w">>>>,        <<"release_year", <<"2","0","1","9">>>>,
    <<"release_year", <<"a","b","c">>>>,    <<"title", <<>>  >>,
    <<"type", <<" ","m","o","v","i","e"," ">>>>,        <<"rating", <<>>  >> }

BaseRow(cols) == [col \in Range(cols) |-> BaseText(col)]

RowsOf(cols, devs) ==
  {BaseRow(cols)} \cup
  {[BaseRow(cols) EXCEPT ![d[1]] = d[2]] : d \in {x \in devs : x[1] \in Range(cols)}}

\* the files of 1..n rows over the given header
FilesOf(cols, devs, n) ==
  {[cols |-> cols, rows |-> r] :
     r \in UNION {[1..k -> RowsOf(cols, devs)] : k \in 1..n}}

EmptyFrame == [cols |-> <<>>, rows |-> <<>>]

EmptyFile == [cols |-> <<>>, rows |-> <<>>]

NoSelection == [types |-> {}, countries |-> {}, years |-> <<0, 0>>, ratings |-> {}]

InitWith(files) ==
  /\ infile \in files
  /\ pc = "start"
  /\ run = 1
  /\ df = EmptyFrame
  /\ outfile = EmptyFile
  /\ firstOut = EmptyFile
  /\ ddf = EmptyFrame
  /\ sel = NoSelection
  /\ filtered = EmptyFrame
  /\ export = EmptyFile

Init ==
  InitWith(FilesOf(FullCols, CleanDeviations \cup DashDeviations, MaxDashRows)
             \cup FilesOf(LeanCols, DashDeviations, MaxDashRows))

InitClean ==
  InitWith(FilesOf(FullCols, CleanDeviations, MaxRows)
             \cup FilesOf(LeanCols, CleanDeviations, 1)
             \cup FilesOf(StaleCols, CleanDeviations, 1))

(* ------------------------- the cleaning script ------------------------ *)
Dash == <<ddf, sel, filtered, export>>

Step(from, to, newdf) ==
  /\ pc = from
  /\ pc' = to
  /\ df' = newdf
  /\ UNCHANGED <<run, infile, outfile, firstOut, Dash>>

LoadRaw == Step("start", "loaded", ReadCsv(infile))

DoDropDuplicates == Step("loaded", "deduped", DropDuplicates(df))

DoDropNa == Step("deduped", "dropped", DropNa(df))

DoCleanCategorical == Step("dropped", "cleaned", CleanCategorical(df))

DoToNumeric == Step("cleaned", "numeric", ToNumeric(df, "release_year"))

DoDates == Step("numeric", "dated", YearAdded(ToDatetime(df, "date_added")))

DoFinalSweep == Step("dated", "swept", FinalSweep(df))

Save ==
  /\ pc = "swept"
  /\ pc' = "saved"
  /\ outfile' = ToCsv(df)
  /\ UNCHANGED <<run, infile, df, firstOut, Dash>>

\* the script run again, on the file it wrote
Rerun ==
  /\ pc = "saved"
  /\ run = 1
  /\ run' = 2
  /\ pc' = "start"
  /\ firstOut' = outfile
  /\ infile' = outfile
  /\ df' = EmptyFrame
  /\ outfile' = EmptyFile
  /\ UNCHANGED Dash

NextClean ==
  \/ LoadRaw
  \/ DoDropDuplicates
  \/ DoDropNa
  \/ DoCleanCategorical
  \/ DoToNumeric
  \/ DoDates
  \/ DoFinalSweep
  \/ Save

SpecClean == InitClean /\ [][NextClean]_vars

(* --------------------------- the dashboard ---------------------------- *)
ColumnCells(d, col) == {d.rows[i].c[col] : i \in DOMAIN d.rows}

AllNa(d, col) == \A cell \in ColumnCells(d, col) : IsNa(cell)

\* Series.fillna(text)
FillNa(d, col, t) ==
  [d EXCEPT !.rows =
     [i \in DOMAIN d.rows |->
        [d.rows[i] EXCEPT !.c[col] = IF IsNa(@) THEN Str(t) ELSE @]]]

\* .str.extract(r"(\d+)").astype(float): the first run of digits
FirstDigits(t) ==
  LET starts == {i \in DOMAIN t : IsDigit(t[i])}
  IN  IF starts = {} THEN <<>>
      ELSE LET a == CHOOSE i \in starts : \A j \in starts : i <= j
               b == CHOOSE i \in a..Len(t) :
                      /\ \A j \in a..i : IsDigit(t[j])
                      /\ (i = Len(t) \/ ~IsDigit(t[i + 1]))
           IN  SubSeq(t, a, b)

ExtractMinutes(cell) ==
  IF cell.k = "str" /\ FirstDigits(cell.s) # <<>>
  THEN FloatCell(DigitsValue(FirstDigits(cell.s)))
  ELSE NaN

IsMovie(cell) == cell.k = "str" /\ Lower(cell.s) = <<"m","o","v","i","e">>

\* df['duration_mins'] = df.loc[type.str.lower() == "movie", "duration"]
\*                         .str.extract(r"(\d+)").astype(float)
DurationMins(d) ==
  [cols |-> Append(d.cols, "duration_mins"),
   rows |-> [i \in DOMAIN d.rows |->
               [d.rows[i] EXCEPT !.c =
                  [x \in Range(d.cols) \cup {"duration_mins"} |->
                     IF x = "duration_mins"
                     THEN (IF IsMovie(d.rows[i].c["type"])
                           THEN ExtractMinutes(d.rows[i].c["duration"])
                           ELSE NaN)
                     ELSE d.rows[i].c[x]]]]]

\* the .str accessor raises on a column read as all-missing (float64);
\* load_data catches the exception and returns an empty frame
LoadRaises(d) ==
  /\ "duration" \in Range(d.cols)
  /\ d.rows # <<>>
  /\ (AllNa(d, "type") \/ AllNa(d, "duration"))

load_data(file) ==
  LET d0 == ReadCsv(file)
      d1 == ToDatetime(d0, "date_added")
      d2 == ToNumeric(d1, "release_year")
      d3 == IF "year_added" \notin Range(d2.cols) THEN YearAdded(d2)
            ELSE ToNumeric(d2, "year_added")
      d4 == IF "duration" \in Range(d3.cols) THEN DurationMins(d3) ELSE d3
      d5 == FillNa(d4, "country", <<"U","n","k","n","o","w","n">>)
      d6 == FillNa(d5, "rating", <<"N","o","t"," ","R","a","t","e","d">>)
  IN  IF LoadRaises(d0) THEN EmptyFrame
      ELSE FillNa(d6, "listed_in", <<"U","n","k","n","o","w","n"," ","G","e","n","r","e">>)

\* str.split(', ')
RECURSIVE SplitCommaSpace(_)
SplitCommaSpace(t) ==
  LET at == {i \in 1..(Len(t) - 1) : t[i] = "," /\ t[i + 1] = " "}
  IN  IF at = {} THEN <<t>>
      ELSE LET p == CHOOSE i \in at : \A j \in at : i <= j
           IN  <<SubSeq(t, 1, p - 1)>> \o SplitCommaSpace(SubSeq(t, p + 2, Len(t)))

\* the stripped entries of a comma-separated cell
Entries(cell) ==
  IF cell.k = "str" THEN {Strip(e) : e \in Range(SplitCommaSpace(cell.s))} ELSE {}

\* sorted(df[col].dropna().unique()), as a set
UniqueTexts(d, col) == {cell.s : cell \in {x \in ColumnCells(d, col) : x.k = "str"}}

all_types(d) == UniqueTexts(d, "type")

country_list(d) ==
  UNION {Entries(cell) : cell \in ColumnCells(d, "country")} \ {<<"U","n","k","n","o","w","n">>}

all_ratings(d) == UniqueTexts(d, "rating")

Years(d) == {cell.n : cell \in {x \in ColumnCells(d, "release_year") : IsNum(x)}}

MinYear(d) == CHOOSE y \in Years(d) : \A z \in Years(d) : y <= z

MaxYear(d) == CHOOSE y \in Years(d) : \A z \in Years(d) : y >= z

\* what the user can pick in a multiselect, up to MaxSelected entries
Picks(options) == {X \in SUBSET options : Cardinality(X) <= MaxSelected}

Selections(d) ==
  [types     : Picks(all_types(d)) \cup {all_types(d)},
   countries : Picks(country_list(d)),
   years     : {y \in (MinYear(d)..MaxYear(d)) \X (MinYear(d)..MaxYear(d)) : y[1] <= y[2]},
   ratings   : Picks(all_ratings(d))]

\* lambda x: any(c in (x or "") for c in selected_countries)
CountryMatches(cell, selected) ==
  \E c \in selected : IsSubstring(c, IF cell.k = "str" THEN cell.s ELSE <<>>)

IsIn(cell, selected) == cell.k = "str" /\ cell.s \in selected

mask(d, s, i) ==
  LET r == d.rows[i].c
  IN  /\ (s.types # {} => IsIn(r["type"], s.types))
      /\ (s.countries # {} => CountryMatches(r["country"], s.countries))
      /\ IsNum(r["release_year"])
      /\ r["release_year"].n >= s.years[1]
      /\ r["release_year"].n <= s.years[2]
      /\ (s.ratings # {} => IsIn(r["rating"], s.ratings))

\* filtered = df[mask].copy()
Filter(d, s) == [d EXCEPT !.rows = SelectAt(@, {i \in DOMAIN d.rows : mask(d, s, i)})]

Script == <<run, infile, df, outfile, firstOut>>

\* load_data() and the df.empty check
LoadData ==
  /\ pc = "saved"
  /\ ddf' = load_data(outfile)
  /\ pc' = IF ddf'.rows = <<>> THEN "stopped" ELSE "ready"
  /\ UNCHANGED <<Script, sel, filtered, export>>

\* int(df['release_year'].min()) raises when no release year is a number
SidebarCrash ==
  /\ pc = "ready"
  /\ Years(ddf) = {}
  /\ pc' = "crashed"
  /\ UNCHANGED <<Script, Dash>>

\* one pass of the page with the widgets' values: filter, then the download
\* button's CSV when at least one row is left
Render ==
  /\ pc \in {"ready", "rendered"}
  /\ Years(ddf) # {}
  /\ \E s \in Selections(ddf) :
       /\ sel' = s
       /\ filtered' = Filter(ddf, s)
       /\ export' = IF Filter(ddf, s).rows # <<>> THEN ToCsv(Filter(ddf, s))
                    ELSE EmptyFile
  /\ pc' = "rendered"
  /\ UNCHANGED <<Script, ddf>>

Next ==
  \/ LoadRaw
  \/ DoDropDuplicates
  \/ DoDropNa
  \/ DoCleanCategorical
  \/ DoToNumeric
  \/ DoDates
  \/ DoFinalSweep
  \/ Save
  \/ Rerun
  \/ LoadData
  \/ SidebarCrash
  \/ Render

Spec == Init /\ [][Next]_vars

(* ------------------------------ claims -------------------------------- *)
\* the script has written its output: df is the final frame, outfile the file
ScriptDone == pc \in {"saved", "stopped", "ready", "crashed", "rendered"}

\* the raw input table of the current run, as read
Input == ReadCsv(infile)

InputRow(idx) == Input.rows[idx + 1].c

OutIdx == {df.rows[i].idx : i \in DOMAIN df.rows}

HasEssentials(r) == \A col \in Essential : ~IsNa(r[col])

FirstOfItsKind(k) == \A j \in 1..(k - 1) : Input.rows[j].c # Input.rows[k].c

\* C1: every row of the normalizer's output has a non-missing title, type and
\* release_year.
C1_EssentialsPresent ==
  ScriptDone => \A i \in DOMAIN df.rows : HasEssentials(df.rows[i].c)

\* C2: the normalizer's output contains no two rows equal in every column,
\* also when the rows became equal only through cleaning.
C2_NoDuplicateRows ==
  ScriptDone =>
    \A i, j \in DOMAIN df.rows : i # j => df.rows[i].c # df.rows[j].c

\* C3: running the normalizer on its own output file writes an identical file
\* (no row dropped, no cell changed).
C3_Idempotent == (run = 2 /\ ScriptDone) => outfile = firstOut

\* C4: the output rows are exactly the input rows that are the first of their
\* kind and whose title, type and release_year are present in the raw input,
\* in input order; a surviving row whose release_year is non-numeric text has
\* release_year missing; two identical rows plus a row without title give
\* exactly one output row.
C4_SurvivorsExact ==
  ScriptDone =>
    /\ OutIdx = {k - 1 : k \in {x \in DOMAIN Input.rows :
                                   FirstOfItsKind(x) /\ HasEssentials(Input.rows[x].c)}}
    /\ \A i, j \in DOMAIN df.rows : i < j => df.rows[i].idx < df.rows[j].idx
    /\ \A i \in DOMAIN df.rows :
         LET in == InputRow(df.rows[i].idx)["release_year"]
         IN  (~IsIntText(in.s) /\ ~IsFloatText(in.s)) => IsNa(df.rows[i].c["release_year"])
    /\ ( /\ Len(infile.rows) = 3
         /\ infile.rows[1] = infile.rows[2]
         /\ HasEssentials(Input.rows[1].c)
         /\ IsNa(Input.rows[3].c["title"]) ) => Len(df.rows) = 1

C4_Witness ==
  /\ pc = "saved"
  /\ Len(infile.rows) = 3
  /\ infile.rows[1] = infile.rows[2]
  /\ infile.rows[1]["release_year"] = <<"a","b","c">>
  /\ infile.rows[3]["title"] = <<>>
  /\ Len(df.rows) = 1
  /\ IsNa(df.rows[1].c["release_year"])

\* C5: in a surviving row, a categorical cell that was whitespace-only is
\* missing in the output, any other is the input text stripped and title-cased
\* (a missing cell stays missing); no output cell is empty or whitespace-only.
C5_CategoricalCleaned ==
  ScriptDone =>
    \A i \in DOMAIN df.rows : \A col \in Range(cat_cols) \cap Range(df.cols) :
      LET in  == InputRow(df.rows[i].idx)[col]
          out == df.rows[i].c[col]
      IN  /\ out = (IF IsNa(in) \/ IsBlank(in.s) THEN NaN ELSE Str(Title(Strip(in.s))))
          /\ ~(out.k = "str" /\ IsBlank(out.s))

\* C6: year_added is the calendar year of date_added when the input date_added
\* parses, and is missing exactly when date_added is missing or does not parse;
\* a date that does not parse does not drop the row.
C6_YearAdded ==
  ScriptDone =>
    /\ \A i \in DOMAIN df.rows :
         LET in  == InputRow(df.rows[i].idx)["date_added"]
             out == df.rows[i].c["year_added"]
         IN  /\ (in.k = "str" /\ IsDateText(in.s))
                  => (out.k = "int" /\ NatText(out.n) = SubSeq(in.s, 1, 4))
             /\ IsNa(out) <=> (IsNa(in) \/ ~IsDateText(in.s))
    /\ \A k \in DOMAIN Input.rows :
         ( /\ ~IsDateText(Input.rows[k].c["date_added"].s)
           /\ FirstOfItsKind(k)
           /\ HasEssentials(Input.rows[k].c) ) => (k - 1) \in OutIdx

C6_Witness ==
  /\ pc = "saved"
  /\ \E i, j \in DOMAIN df.rows :
       /\ InputRow(df.rows[i].idx)["date_added"] = Str(<<"2","0","2","1","-","0","3","-","1","5">>)
       /\ df.rows[i].c["year_added"] = IntCell(2021)
       /\ InputRow(df.rows[j].idx)["date_added"] = Str(<<"2","0","2","1","-","0","2","-","3","0">>)
       /\ IsNa(df.rows[j].c["year_added"])

Expected == {"title", "type", "release_year", "date_added", "rating", "country",
             "director", "cast", "listed_in", "duration"}

\* C7 as stated: in a surviving row, every cell of a column outside the
\* expected set is the same in the output as in the input.
C7_PassThroughUnmodified ==
  ScriptDone =>
    \A i \in DOMAIN df.rows : \A col \in Range(infile.cols) \ Expected :
      df.rows[i].c[col] = InputRow(df.rows[i].idx)[col]

\* C7 amended: in a surviving row, every cell of a column outside the expected
\* set, other than year_added (which the script overwrites), is the same in
\* the output as in the input, except that a whitespace-only text becomes
\* missing.
C7_PassThroughButBlank ==
  ScriptDone =>
    \A i \in DOMAIN df.rows :
      \A col \in Range(infile.cols) \ (Expected \cup {"year_added"}) :
        LET in  == InputRow(df.rows[i].idx)[col]
            out == df.rows[i].c[col]
        IN  out = (IF in.k = "str" /\ IsBlank(in.s) THEN NaN ELSE in)

C7_Witness ==
  /\ pc = "saved"
  /\ "description" \in Range(df.cols)
  /\ \E i, j \in DOMAIN df.rows :
       /\ InputRow(df.rows[i].idx)["description"] = Str(<<" ">>)
       /\ IsNa(df.rows[i].c["description"])
       /\ InputRow(df.rows[j].idx)["description"] = Str(<<"a"," ","t","a","l","e">>)
       /\ df.rows[j].c["description"] = Str(<<"a"," ","t","a","l","e">>)

\* C8: the dashboard's export of a non-empty filtered subset has the columns
\* of the normalized file it loaded, in the same order.
C8_ExportSchema ==
  (pc = "rendered" /\ filtered.rows # <<>>) => export.cols = outfile.cols

\* C9: in a surviving row, a rating, country, director, cast or listed_in cell
\* missing in the raw input is missing in the normalized output, and the
\* dashboard shows its placeholder for it.
C9_MissingStaysMissing ==
  /\ ScriptDone =>
       \A i \in DOMAIN df.rows :
         \A col \in (Range(cat_cols) \ {"type"}) \cap Range(df.cols) :
           IsNa(InputRow(df.rows[i].idx)[col]) => IsNa(df.rows[i].c[col])
  /\ pc \in {"ready", "rendered"} =>
       \A i \in DOMAIN ddf.rows :
         /\ IsNa(InputRow(df.rows[i].idx)["rating"])
              => ddf.rows[i].c["rating"] = Str(<<"N","o","t"," ","R","a","t","e","d">>)
         /\ IsNa(InputRow(df.rows[i].idx)["country"])
              => ddf.rows[i].c["country"] = Str(<<"U","n","k","n","o","w","n">>)

\* C10: with a non-empty country selection, every record of the filtered
\* subset has an entry of its comma-separated country list equal to a selected
\* country; with an empty selection no record is excluded by country.
C10_CountryFilterExact ==
  pc = "rendered" =>
    /\ sel.countries # {} =>
         \A i \in DOMAIN filtered.rows :
           Entries(filtered.rows[i].c["country"]) \cap sel.countries # {}
    /\ sel.countries = {} =>
         filtered = Filter(ddf, [sel EXCEPT !.countries = {}])

====
